---- MODULE Spec2Model ----
(***************************************************************************)
(* A model of the CHIP-8 virtual CPU of src/src/chip8.rs: the Chip8 struct *)
(* and its methods initialize, load_program, fetch_opcode, decode_opcode,  *)
(* update_timers and clear_screen.                                         *)
(*                                                                         *)
(* Rust semantics that matter here:                                        *)
(*   - indexing an array out of range panics (the process dies);           *)
(*   - +=, -= on u8/u16 panic on overflow when the build has overflow      *)
(*     checks (debug profile) and wrap when it has not (release profile);  *)
(*   - todo!() panics.                                                     *)
(* A panic leaves the fields as the statements before it left them.        *)
(***************************************************************************)
EXTENDS Integers, Sequences, FiniteSets, TLC

VARIABLES
    current_opcode,   \* u16
    memory,           \* [u8; 4096]
    v,                \* [u8; 16]
    index_register,   \* u16
    program_counter,  \* u16
    gfx,              \* [u8; 64 * 32]
    delay_timer,      \* u8
    sound_timer,      \* u8
    stack_pointer,    \* u16
    stack,            \* [u16; 16]
    panic,            \* "none", or why the process panicked
    buzzer,           \* TRUE when the last update_timers printed BEEP!
    overflow_checks,  \* build profile: TRUE = arithmetic overflow panics
    phase,            \* driver position: "fetch" (between steps) or "execute"
    op,               \* the operation that produced this state
    arg,              \* the input of that operation (load_program's image and kind)
    fetch_pc,         \* program_counter at the last fetch
    stack_index,      \* the indices decode_opcode last used on stack
    calls,            \* program_counter at each CALL not yet returned from
    steps,            \* number of opcodes executed
    ticks,            \* number of timer ticks counted
    timer_start,      \* the timers when the count of ticks started
    keys              \* the keys the host's input source holds down

vars == <<current_opcode, memory, v, index_register, program_counter, gfx,
          delay_timer, sound_timer, stack_pointer, stack, panic, buzzer,
          overflow_checks, phase, op, arg, fetch_pc, stack_index, calls, steps,
          ticks, timer_start, keys>>

-----------------------------------------------------------------------------
(* Program constants                                                       *)

MEMORY_SIZE == 4096
GFX_SIZE == 64 * 32
NUM_REGISTERS == 16
STACK_SIZE == 16
FONT_SET_SIZE == 80
CHIP8_PROGRAM_OFFSET == 512
ETI660_PROGRAM_OFFSET == 1536
INITIAL_PC == 512
F == 15
U8 == 256
U16 == 65536

LAST_12_BITS_MASK == 4095
LAST_8_BITS_MASK == 255
FIRST_4_BITS_MASK == 61440
SECOND_4_BITS_MASK == 3840
THIRD_4_BITS_MASK == 240
FOURTH_4_BITS_MASK == 15

CHIP8_FONT_SET ==
    << 240, 144, 144, 144, 240,
        32,  96,  32,  32, 112,
       240,  16, 240, 128, 240,
       240,  16, 240,  16, 240,
       144, 144, 240,  16,  16,
       240, 128, 240,  16, 240,
       240, 128, 240, 144, 240,
       240,  16,  32,  64,  64,
       240, 144, 240, 144, 240,
       240, 144, 240,  16, 240,
       240, 144, 240, 144, 144,
       224, 144, 224, 144, 224,
       240, 128, 128, 128, 240,
       224, 144, 144, 144, 224,
       240, 128, 240, 128, 240,
       240, 128, 240, 128, 128 >>

ProgramKind == {"CHIP8", "ETI660"}

-----------------------------------------------------------------------------
(* Bit operations on unsigned integers                                     *)

RECURSIVE BitAnd(_, _)
BitAnd(a, b) ==
    IF a = 0 \/ b = 0 THEN 0
    ELSE (a % 2) * (b % 2) + 2 * BitAnd(a \div 2, b \div 2)

RECURSIVE BitOr(_, _)
BitOr(a, b) ==
    IF a = 0 THEN b
    ELSE IF b = 0 THEN a
    ELSE (IF a % 2 = 1 \/ b % 2 = 1 THEN 1 ELSE 0) + 2 * BitOr(a \div 2, b \div 2)

RECURSIVE BitXor(_, _)
BitXor(a, b) ==
    IF a = 0 THEN b
    ELSE IF b = 0 THEN a
    ELSE (((a % 2) + (b % 2)) % 2) + 2 * BitXor(a \div 2, b \div 2)

Shr(a, n) == a \div (2 ^ n)

-----------------------------------------------------------------------------
(* The machine as a record, so that each method is an operator on it       *)

Machine ==
    [current_opcode |-> current_opcode, memory |-> memory, v |-> v,
     index_register |-> index_register, program_counter |-> program_counter,
     gfx |-> gfx, delay_timer |-> delay_timer, sound_timer |-> sound_timer,
     stack_pointer |-> stack_pointer, stack |-> stack, panic |-> panic,
     buzzer |-> buzzer, stack_index |-> stack_index]

Install(m) ==
    /\ current_opcode' = m.current_opcode
    /\ memory' = m.memory
    /\ v' = m.v
    /\ index_register' = m.index_register
    /\ program_counter' = m.program_counter
    /\ gfx' = m.gfx
    /\ delay_timer' = m.delay_timer
    /\ sound_timer' = m.sound_timer
    /\ stack_pointer' = m.stack_pointer
    /\ stack' = m.stack
    /\ panic' = m.panic
    /\ buzzer' = m.buzzer
    /\ stack_index' = m.stack_index

Panicked(m, why) == [m EXCEPT !.panic = why]

-----------------------------------------------------------------------------
(* Byte arrays.  memory, gfx and a program image are arrays of bytes that  *)
(* are mostly zero.  An array is kept as the function from the indices of  *)
(* its nonzero bytes to those bytes; every other index within its length   *)
(* reads as 0.  The length is MEMORY_SIZE for memory, GFX_SIZE for gfx and *)
(* the len field for a program image (a slice &[u8]).  Indices are 0-based *)
(* as in the source.                                                       *)

At(bytes, i) == IF i \in DOMAIN bytes THEN bytes[i] ELSE 0

\* the array with patch[i] at the indices of patch and bytes elsewhere
Overwrite(bytes, patch) ==
    LET new(i) == IF i \in DOMAIN patch THEN patch[i] ELSE bytes[i]
    IN  [i \in {j \in (DOMAIN bytes) \cup (DOMAIN patch) : new(j) # 0} |-> new(i)]

AllZero == [i \in {} |-> 0]

\* the slice holding the bytes of the sequence s
Image(s) ==
    [len |-> Len(s),
     bytes |-> Overwrite(AllZero, [i \in 0..(Len(s) - 1) |-> s[i + 1]])]

\* the slice of len bytes that starts with the bytes of s, ends with the
\* byte last and is zero in between
PaddedImage(s, len, last) ==
    [len |-> len,
     bytes |-> Overwrite(Image(s).bytes, [i \in {len - 1} |-> last])]

-----------------------------------------------------------------------------
(* initialize, load_program, fetch_opcode                                  *)

initialize(m) ==
    [m EXCEPT !.program_counter = INITIAL_PC,
              !.current_opcode = 0,
              !.index_register = 0,
              !.stack_pointer = 0,
              !.memory = Overwrite(m.memory,
                                   [i \in 0..(FONT_SET_SIZE - 1) |->
                                      CHIP8_FONT_SET[i + 1]])]

\* The loop of load_chip8_program / load_eti660_program: byte i goes to
\* memory[offset + i]; the first i with offset + i out of range panics,
\* after the bytes before it were written.
LoadAt(m, program_buffer, offset) ==
    LET inside(a) == a >= offset /\ a - offset < program_buffer.len
                     /\ a < MEMORY_SIZE
        touched == {a \in (DOMAIN m.memory)
                            \cup {offset + i : i \in DOMAIN program_buffer.bytes} :
                      inside(a)}
        written == [m EXCEPT !.memory =
                       Overwrite(m.memory,
                                 [a \in touched |->
                                    At(program_buffer.bytes, a - offset)])]
    IN  IF offset + program_buffer.len > MEMORY_SIZE
        THEN Panicked(written, "index out of bounds")
        ELSE written

load_chip8_program(m, program_buffer) ==
    LoadAt(m, program_buffer, CHIP8_PROGRAM_OFFSET)

\* a slip: the ETI 660 loader writes at the CHIP-8 offset
load_eti660_program_at_chip8_offset(m, program_buffer) ==
    LoadAt(m, program_buffer, CHIP8_PROGRAM_OFFSET)

load_eti660_program(m, program_buffer) ==
    LoadAt(m, program_buffer, ETI660_PROGRAM_OFFSET)

load_program(m, program, kind) ==
    IF kind = "CHIP8" THEN load_chip8_program(m, program)
    ELSE load_eti660_program(m, program)

from_be_bytes(b1, b2) == b1 * 256 + b2

\* a slip: the two bytes combined little-endian
fetch_opcode_little_endian(m) ==
    IF m.program_counter >= MEMORY_SIZE \/ m.program_counter + 1 >= MEMORY_SIZE
    THEN Panicked(m, "index out of bounds")
    ELSE [m EXCEPT !.current_opcode =
             from_be_bytes(At(m.memory, m.program_counter + 1),
                           At(m.memory, m.program_counter))]

fetch_opcode(m) ==
    IF m.program_counter >= MEMORY_SIZE \/ m.program_counter + 1 >= MEMORY_SIZE
    THEN Panicked(m, "index out of bounds")
    ELSE [m EXCEPT !.current_opcode =
             from_be_bytes(At(m.memory, m.program_counter),
                           At(m.memory, m.program_counter + 1))]

-----
(* decode_opcode, one operator per arm of its match                        *)

NoIndex == -1

\* 00E0: clear_screen is todo!()
clear_screen(m) == Panicked(m, "not yet implemented")

\* 00EE
ExecRET(m) ==
    IF m.stack_pointer >= STACK_SIZE
    THEN Panicked([m EXCEPT !.stack_index = m.stack_pointer], "index out of bounds")
    ELSE LET m1 == [m EXCEPT !.program_counter = m.stack[m.stack_pointer],
                             !.stack_index = m.stack_pointer]
         IN  IF m.stack_pointer = 0
             THEN IF overflow_checks
                  THEN Panicked(m1, "attempt to subtract with overflow")
                  ELSE [m1 EXCEPT !.stack_pointer = U16 - 1]
             ELSE [m1 EXCEPT !.stack_pointer = m.stack_pointer - 1]

\* 0NNN: println! only
ExecSYS(m, last_3_n) == m

\* 1NNN
ExecJP(m, last_3_n) == [m EXCEPT !.program_counter = last_3_n]

\* a CALL that stores the return address before incrementing the stack
\* pointer
ExecCALL_store_then_increment(m, last_3_n) ==
    IF m.stack_pointer >= STACK_SIZE
    THEN Panicked([m EXCEPT !.stack_index = m.stack_pointer], "index out of bounds")
    ELSE [m EXCEPT !.stack[m.stack_pointer] = m.program_counter,
                   !.stack_index = m.stack_pointer,
                   !.stack_pointer = m.stack_pointer + 1,
                   !.program_counter = last_3_n]

\* 2NNN
ExecCALL(m, last_3_n) ==
    IF m.stack_pointer + 1 >= U16 /\ overflow_checks
    THEN Panicked(m, "attempt to add with overflow")
    ELSE LET sp1 == (m.stack_pointer + 1) % U16
             m1 == [m EXCEPT !.stack_pointer = sp1, !.stack_index = sp1]
         IN  IF sp1 >= STACK_SIZE
             THEN Panicked(m1, "index out of bounds")
             ELSE [m1 EXCEPT !.stack[sp1] = m.program_counter,
                             !.program_counter = last_3_n]

\* self.program_counter += 2
SkipNext(m) ==
    IF m.program_counter + 2 >= U16
    THEN IF overflow_checks
         THEN Panicked(m, "attempt to add with overflow")
         ELSE [m EXCEPT !.program_counter = (m.program_counter + 2) % U16]
    ELSE [m EXCEPT !.program_counter = m.program_counter + 2]

\* 3XKK
ExecSE_byte(m, x, last_2_n) == IF m.v[x] = last_2_n THEN SkipNext(m) ELSE m

\* 4XKK
ExecSNE_byte(m, x, last_2_n) == IF m.v[x] # last_2_n THEN SkipNext(m) ELSE m

\* 5XY_ (the fourth nibble is not looked at)
ExecSE_reg(m, x, y) == IF m.v[x] = m.v[y] THEN SkipNext(m) ELSE m

\* a 6XKK that stores the byte in memory[x] instead of v[x]
ExecLD_byte_into_memory(m, x, last_2_n) ==
    [m EXCEPT !.memory = Overwrite(m.memory, [i \in {x} |-> last_2_n])]

\* 6XKK
ExecLD_byte(m, x, last_2_n) == [m EXCEPT !.v[x] = last_2_n]

\* 7XKK: self.v[x] += last_2_n
ExecADD_byte(m, x, last_2_n) ==
    IF m.v[x] + last_2_n >= U8
    THEN IF overflow_checks
         THEN Panicked(m, "attempt to add with overflow")
         ELSE [m EXCEPT !.v[x] = (m.v[x] + last_2_n) % U8]
    ELSE [m EXCEPT !.v[x] = m.v[x] + last_2_n]

\* 8XY0 .. 8XY3
ExecLD_reg(m, x, y) == [m EXCEPT !.v[x] = m.v[y]]
ExecOR(m, x, y) == [m EXCEPT !.v[x] = BitOr(m.v[x], m.v[y])]
ExecAND(m, x, y) == [m EXCEPT !.v[x] = BitAnd(m.v[x], m.v[y])]
ExecXOR(m, x, y) == [m EXCEPT !.v[x] = BitXor(m.v[x], m.v[y])]

\* a slip: the carry is never written
ExecADD_reg_no_carry(m, x, y) ==
    [m EXCEPT !.v[x] = (m.v[x] + m.v[y]) % U8]

\* 8XY4: overflowing_add, then v[x] = sum, then v[F] = carry
ExecADD_reg(m, x, y) ==
    LET total == m.v[x] + m.v[y]
        sum == total % U8
        overflowing == total >= U8
        m1 == [m EXCEPT !.v[x] = sum]
    IN  [m1 EXCEPT !.v[F] = IF overflowing THEN 1 ELSE 0]

\* 8XY5: only the flag is written
ExecSUB(m, x, y) ==
    LET x_bigger == m.v[x] > m.v[y]
    IN  [m EXCEPT !.v[F] = IF x_bigger THEN 1 ELSE 0]

\* 8XY6
ExecSHR(m, x) ==
    LET x_lsb == BitAnd(m.v[x], 1)
        m1 == [m EXCEPT !.v[F] = IF x_lsb = 1 THEN 1 ELSE 0]
    IN  [m1 EXCEPT !.v[x] = Shr(m1.v[x], 1)]

\* 8XY7: only the flag is written
ExecSUBN(m, x, y) ==
    LET y_bigger == m.v[y] > m.v[x]
    IN  [m EXCEPT !.v[F] = IF y_bigger THEN 1 ELSE 0]

\* 8XYE
ExecSHL(m, x) ==
    LET x_msb == BitAnd(Shr(m.v[x], 7), 1)
        m1 == [m EXCEPT !.v[F] = IF x_msb = 1 THEN 1 ELSE 0]
    IN  [m1 EXCEPT !.v[x] = (m1.v[x] * 2) % U8]

\* 8XY8 .. 8XYD, 8XYF: todo!()
ExecTodo(m) == Panicked(m, "not yet implemented")

\* 9XY_ (the fourth nibble is not looked at)
ExecSNE_reg(m, x, y) == IF m.v[x] # m.v[y] THEN SkipNext(m) ELSE m

\* ANNN
ExecLD_I(m, last_3_n) == [m EXCEPT !.index_register = last_3_n]

\* BNNN
ExecJP_V0(m, last_3_n) == [m EXCEPT !.program_counter = last_3_n + m.v[0]]

\* a fallback arm that also counts the delay timer down
ExecInvalid_counting_down(m) ==
    IF m.delay_timer > 0 THEN [m EXCEPT !.delay_timer = m.delay_timer - 1] ELSE m

\* the fallback arm (families C, D, E, F): eprint! only
ExecInvalid(m) == m

decode_opcode(m0) ==
    LET m == [m0 EXCEPT !.stack_index = NoIndex]
        first_1_n == BitAnd(m.current_opcode, FIRST_4_BITS_MASK)
        x == Shr(BitAnd(m.current_opcode, SECOND_4_BITS_MASK), 8)
        y == Shr(BitAnd(m.current_opcode, THIRD_4_BITS_MASK), 4)
        fourth_1_n == BitAnd(m.current_opcode, FOURTH_4_BITS_MASK)
        last_2_n == BitAnd(m.current_opcode, LAST_8_BITS_MASK) % U8
        last_3_n == BitAnd(m.current_opcode, LAST_12_BITS_MASK)
    IN  CASE first_1_n = 0 ->
                (CASE m.current_opcode = 224 -> clear_screen(m)
                   [] m.current_opcode = 238 -> ExecRET(m)
                   [] OTHER -> ExecSYS(m, last_3_n))
          [] first_1_n = 4096 -> ExecJP(m, last_3_n)
          [] first_1_n = 8192 -> ExecCALL(m, last_3_n)
          [] first_1_n = 12288 -> ExecSE_byte(m, x, last_2_n)
          [] first_1_n = 16384 -> ExecSNE_byte(m, x, last_2_n)
          [] first_1_n = 20480 -> ExecSE_reg(m, x, y)
          [] first_1_n = 24576 -> ExecLD_byte(m, x, last_2_n)
          [] first_1_n = 28672 -> ExecADD_byte(m, x, last_2_n)
          [] first_1_n = 32768 ->
                (CASE fourth_1_n = 0 -> ExecLD_reg(m, x, y)
                   [] fourth_1_n = 1 -> ExecOR(m, x, y)
                   [] fourth_1_n = 2 -> ExecAND(m, x, y)
                   [] fourth_1_n = 3 -> ExecXOR(m, x, y)
                   [] fourth_1_n = 4 -> ExecADD_reg(m, x, y)
                   [] fourth_1_n = 5 -> ExecSUB(m, x, y)
                   [] fourth_1_n = 6 -> ExecSHR(m, x)
                   [] fourth_1_n = 7 -> ExecSUBN(m, x, y)
                   [] fourth_1_n = 14 -> ExecSHL(m, x)
                   [] OTHER -> ExecTodo(m))
          [] first_1_n = 36864 -> ExecSNE_reg(m, x, y)
          [] first_1_n = 40960 -> ExecLD_I(m, last_3_n)
          [] first_1_n = 45056 -> ExecJP_V0(m, last_3_n)
          [] OTHER -> ExecInvalid(m)

\* a slip: the timers are decremented without the test for zero
update_timers_without_floor(m) ==
    [m EXCEPT !.delay_timer = (m.delay_timer + U8 - 1) % U8,
              !.sound_timer = (m.sound_timer + U8 - 1) % U8,
              !.buzzer = (m.sound_timer = 1)]

\* a slip: BEEP! is printed on every tick with the sound timer nonzero
update_timers_beeping_while_nonzero(m) ==
    LET m1 == IF m.delay_timer > 0
              THEN [m EXCEPT !.delay_timer = m.delay_timer - 1]
              ELSE m
    IN  IF m1.sound_timer > 0
        THEN [m1 EXCEPT !.buzzer = TRUE,
                        !.sound_timer = m1.sound_timer - 1]
        ELSE [m1 EXCEPT !.buzzer = FALSE]

\* update_timers
update_timers(m) ==
    LET m1 == IF m.delay_timer > 0
              THEN [m EXCEPT !.delay_timer = m.delay_timer - 1]
              ELSE m
    IN  IF m1.sound_timer > 0
        THEN [m1 EXCEPT !.buzzer = (m1.sound_timer = 1),
                        !.sound_timer = m1.sound_timer - 1]
        ELSE [m1 EXCEPT !.buzzer = FALSE]

-----------------------------------------------------------------------------
(* Bounds of the model                                                     *)

\* the timers start at 0..MaxTimer
MaxTimer == 1
\* the oversized image is Excess bytes longer than what fits at 0x200
Excess == 1
\* the arithmetic and opcode specifications execute at most MaxSteps opcodes
MaxSteps == 1
\* the timer and opcode specifications start the timers at 0..MaxStart
MaxStart == 2
\* and counts at most MaxTicks ticks
MaxTicks == 3

-----------------------------------------------------------------------------
(* The state after construction.  The struct has no constructor: every     *)
(* field is given by the code that builds it.  The arrays start zeroed,    *)
(* initialize() has been called once, the timers are the builder's choice. *)

Zeroed ==
    [current_opcode |-> 0,
     memory |-> AllZero,
     v |-> [r \in 0..(NUM_REGISTERS - 1) |-> 0],
     index_register |-> 0,
     program_counter |-> 0,
     gfx |-> AllZero,
     delay_timer |-> 0,
     sound_timer |-> 0,
     stack_pointer |-> 0,
     stack |-> [s \in 0..(STACK_SIZE - 1) |-> 0],
     panic |-> "none",
     buzzer |-> FALSE,
     stack_index |-> NoIndex]

NoArg == [program |-> Image(<< >>), kind |-> "none"]

InitWith(m) ==
    /\ current_opcode = m.current_opcode
    /\ memory = m.memory
    /\ v = m.v
    /\ index_register = m.index_register
    /\ program_counter = m.program_counter
    /\ gfx = m.gfx
    /\ delay_timer = m.delay_timer
    /\ sound_timer = m.sound_timer
    /\ stack_pointer = m.stack_pointer
    /\ stack = m.stack
    /\ panic = m.panic
    /\ buzzer = m.buzzer
    /\ stack_index = m.stack_index
    /\ overflow_checks \in BOOLEAN
    /\ phase = "fetch"
    /\ op = "new"
    /\ arg = NoArg
    /\ fetch_pc = m.program_counter
    /\ calls = << >>
    /\ steps = 0
    /\ ticks = 0
    /\ timer_start = [delay |-> m.delay_timer, sound |-> m.sound_timer]
    /\ keys = {}

Init ==
    \E dt \in 0..MaxTimer, st \in 0..MaxTimer :
        InitWith(initialize([Zeroed EXCEPT !.delay_timer = dt, !.sound_timer = st]))

-----------------------------------------------------------------------------
(* The operations                                                          *)

Family(opcode) == opcode \div 4096
IsCALL(opcode) == Family(opcode) = 2
IsRET(opcode) == opcode = 238

Initialize ==
    /\ panic = "none"
    /\ phase = "fetch"
    /\ Install(initialize(Machine))
    /\ op' = "initialize"
    /\ arg' = NoArg
    /\ calls' = << >>
    /\ UNCHANGED <<overflow_checks, phase, fetch_pc, steps, ticks, timer_start, keys>>

LoadProgram(program, kind) ==
    /\ panic = "none"
    /\ phase = "fetch"
    /\ Install(load_program(Machine, program, kind))
    /\ op' = "load_program"
    /\ arg' = [program |-> program, kind |-> kind]
    /\ UNCHANGED <<overflow_checks, phase, fetch_pc, calls, steps, ticks, timer_start, keys>>

FetchBody ==
    /\ panic = "none"
    /\ phase = "fetch"
    /\ Install(fetch_opcode(Machine))
    /\ phase' = "execute"
    /\ op' = "fetch_opcode"
    /\ arg' = NoArg
    /\ fetch_pc' = program_counter
    /\ UNCHANGED <<overflow_checks, calls, ticks, timer_start, keys>>

Fetch == FetchBody /\ UNCHANGED steps

FetchBounded == steps < MaxSteps /\ FetchBody /\ steps' = steps + 1

Decode ==
    /\ panic = "none"
    /\ phase = "execute"
    /\ LET m == decode_opcode(Machine)
       IN  /\ Install(m)
           /\ calls' = IF m.panic # "none" THEN calls
                       ELSE IF IsCALL(current_opcode)
                            THEN Append(calls, program_counter)
                       ELSE IF IsRET(current_opcode) /\ Len(calls) > 0
                            THEN SubSeq(calls, 1, Len(calls) - 1)
                       ELSE calls
    /\ phase' = "fetch"
    /\ op' = "decode_opcode"
    /\ arg' = NoArg
    /\ UNCHANGED <<overflow_checks, fetch_pc, steps, ticks, timer_start, keys>>

UpdateTimersBody ==
    /\ panic = "none"
    /\ phase = "fetch"
    /\ Install(update_timers(Machine))
    /\ op' = "update_timers"
    /\ arg' = NoArg
    /\ UNCHANGED <<overflow_checks, phase, fetch_pc, calls, steps, keys>>

\* a tick that is not counted: the count of ticks starts again from the
\* timers it leaves
UpdateTimers ==
    /\ UpdateTimersBody
    /\ ticks' = 0
    /\ timer_start' = [delay |-> delay_timer', sound |-> sound_timer']

\* a counted tick
UpdateTimersBounded ==
    /\ ticks < MaxTicks
    /\ UpdateTimersBody
    /\ ticks' = ticks + 1
    /\ UNCHANGED timer_start

\* The host's input source presses or releases a key.  The Chip8 struct has
\* no key-state field and no method reads one.
PressKey(k) ==
    /\ panic = "none"
    /\ phase = "fetch"
    /\ k \notin keys
    /\ keys' = keys \cup {k}
    /\ op' = "press_key"
    /\ arg' = NoArg
    /\ UNCHANGED <<current_opcode, memory, v, index_register, program_counter,
                   gfx, delay_timer, sound_timer, stack_pointer, stack, panic,
                   buzzer, overflow_checks, phase, fetch_pc, stack_index, calls,
                   steps, ticks, timer_start>>

ReleaseKey(k) ==
    /\ panic = "none"
    /\ phase = "fetch"
    /\ k \in keys
    /\ keys' = keys \ {k}
    /\ op' = "release_key"
    /\ arg' = NoArg
    /\ UNCHANGED <<current_opcode, memory, v, index_register, program_counter,
                   gfx, delay_timer, sound_timer, stack_pointer, stack, panic,
                   buzzer, overflow_checks, phase, fetch_pc, stack_index, calls,
                   steps, ticks, timer_start>>

-----------------------------------------------------------------------------
(* The general specification: any order of initialize, load_program,       *)
(* steps (fetch then decode) and timer ticks, over a few program images    *)

\* 6105  LD V1, 0x05
ImgLoad == Image(<<97, 5>>)
\* 1202  JP 0x202 ; A123  LD I, 0x123
ImgJump == Image(<<18, 2, 161, 35>>)
\* 1600  JP 0x600
ImgFar == Image(<<22, 0>>)
\* an image that ends exactly at 0xFFF when loaded at 0x200
ImgExactFit == PaddedImage(<<97, 5>>, MEMORY_SIZE - CHIP8_PROGRAM_OFFSET, 171)
\* an image too long for either offset
ImgOversized ==
    PaddedImage(<<97, 5>>, MEMORY_SIZE - CHIP8_PROGRAM_OFFSET + Excess, 205)

Programs == {ImgLoad, ImgJump, ImgFar, ImgExactFit, ImgOversized}

Load == \E program \in Programs, kind \in ProgramKind : LoadProgram(program, kind)

Next == Initialize \/ Load \/ Fetch \/ Decode \/ UpdateTimers

Spec == Init /\ [][Next]_vars

\* the same operations on a machine built with every field zero
InitZeroed == Init /\ delay_timer = 0 /\ sound_timer = 0

SpecZeroed == InitZeroed /\ [][Next]_vars

-----------------------------------------------------------------------------
(* The stack specification: CALL and RET only, from initialize             *)

\* 2202  CALL 0x202 ; 2200  CALL 0x200
ImgCalls == Image(<<34, 2, 34, 0>>)
\* 00EE  RET ; 00EE  RET
ImgRets == Image(<<0, 238, 0, 238>>)

StackPrograms == {ImgCalls, ImgRets}

InitStack == Init /\ delay_timer = 0 /\ sound_timer = 0

LoadStack ==
    \E program \in StackPrograms, kind \in ProgramKind : LoadProgram(program, kind)

NextStack == Initialize \/ LoadStack \/ Fetch \/ Decode

SpecStack == InitStack /\ [][NextStack]_vars

-----------------------------------------------------------------------------
(* The arithmetic specification: one opcode of the 8XY_ family executed    *)
(* on registers that earlier LD Vx, byte opcodes (6XKK) have set           *)

ByteSamples == {0, 1, 3, 5, 128, 255}

\* 8124 ADD V1,V2 ; 8125 SUB V1,V2 ; 8F14 ADD VF,V1 ; 81F4 ADD V1,VF
ImgAddV1V2 == Image(<<129, 36>>)
ImgSubV1V2 == Image(<<129, 37>>)
ImgAddVFV1 == Image(<<143, 20>>)
ImgAddV1VF == Image(<<129, 244>>)
\* 71FF ADD V1,0xFF
ImgAddV1Byte == Image(<<113, 255>>)

AluPrograms == {ImgAddV1V2, ImgSubV1V2, ImgAddVFV1, ImgAddV1VF, ImgAddV1Byte}

InitAlu ==
    \E a \in ByteSamples, b \in ByteSamples, c \in ByteSamples :
        InitWith(initialize([Zeroed EXCEPT !.v[1] = a, !.v[2] = b, !.v[F] = c]))

LoadAlu ==
    \E program \in AluPrograms, kind \in ProgramKind : LoadProgram(program, kind)

NextAlu == LoadAlu \/ FetchBounded \/ Decode

SpecAlu == InitAlu /\ [][NextAlu]_vars

-----------------------------------------------------------------------------
(* The timer specification: counted ticks between steps, on timers that    *)
(* start anywhere in 0..MaxStart                                           *)

TimerPrograms == {ImgLoad, ImgJump}

InitTimers ==
    \E dt \in 0..MaxStart, st \in 0..MaxStart :
        InitWith(initialize([Zeroed EXCEPT !.delay_timer = dt, !.sound_timer = st]))

LoadTimers ==
    \E program \in TimerPrograms, kind \in ProgramKind : LoadProgram(program, kind)

NextTimers == LoadTimers \/ Fetch \/ Decode \/ UpdateTimersBounded

SpecTimers == InitTimers /\ [][NextTimers]_vars

-----------------------------------------------------------------------------
(* The opcode specification: a program of one opcode, any one of OpCodes,  *)
(* is loaded before the first step; at most MaxSteps steps run, with timer *)
(* ticks in between, on registers that earlier LD Vx, byte opcodes have    *)
(* set                                                                     *)

OpCodes ==
    { 224,     \* 00E0 CLS
      238,     \* 00EE RET
      291,     \* 0123 SYS 0x123
      4612,    \* 1204 JP 0x204
      8708,    \* 2204 CALL 0x204
      12549,   \* 3105 SE V1,0x05
      16645,   \* 4105 SNE V1,0x05
      20768,   \* 5120 SE V1,V2
      20769,   \* 5121
      24839,   \* 6107 LD V1,0x07
      28930,   \* 7102 ADD V1,0x02
      33056,   \* 8120 LD V1,V2
      33057,   \* 8121 OR V1,V2
      33058,   \* 8122 AND V1,V2
      33059,   \* 8123 XOR V1,V2
      33060,   \* 8124 ADD V1,V2
      33061,   \* 8125 SUB V1,V2
      33062,   \* 8126 SHR V1
      33063,   \* 8127 SUBN V1,V2
      33064,   \* 8128
      33070,   \* 812E SHL V1
      37152,   \* 9120 SNE V1,V2
      37153,   \* 9121
      41251,   \* A123 LD I,0x123
      45572,   \* B204 JP V0,0x204
      49663,   \* C1FF RND V1,0xFF
      53541,   \* D125 DRW V1,V2,5
      57758,   \* E19E SKP V1
      61706,   \* F10A LD V1,K
      61717,   \* F115 LD DT,V1
      61781 }  \* F155 LD [I],V1

OpPrograms == {Image(<<c \div 256, c % 256>>) : c \in OpCodes}

OpSamples == {0, 5}

InitOps ==
    \E dt \in 0..MaxStart, st \in 0..MaxStart, a \in OpSamples :
        InitWith(initialize([Zeroed EXCEPT !.delay_timer = dt, !.sound_timer = st,
                                           !.v[1] = a, !.v[2] = 5]))

LoadOps ==
    /\ steps = 0
    /\ \E program \in OpPrograms : LoadProgram(program, "CHIP8")

NextOps == LoadOps \/ FetchBounded \/ Decode \/ UpdateTimers

SpecOps == InitOps /\ [][NextOps]_vars

-----------------------------------------------------------------------------
(* The keypad specification: a program that waits for a key, with the      *)
(* host pressing and releasing keys between the steps                      *)

\* F10A  LD V1, K
ImgWaitKey == Image(<<241, 10>>)

KeyPrograms == {ImgWaitKey, ImgLoad}

\* the keys of the 16-key pad that the host presses
KeySamples == {3, 15}

LoadKeys == \E program \in KeyPrograms : LoadProgram(program, "CHIP8")

PressSomeKey == \E k \in KeySamples : PressKey(k)

ReleaseSomeKey == \E k \in KeySamples : ReleaseKey(k)

NextKeys ==
    Initialize \/ LoadKeys \/ Fetch \/ Decode \/ PressSomeKey \/ ReleaseSomeKey

SpecKeys == InitZeroed /\ [][NextKeys]_vars

-----------------------------------------------------------------------------
(* The fields of an opcode, as the specification of CHIP-8 names them      *)

X(opcode) == (opcode \div 256) % 16
Y(opcode) == (opcode \div 16) % 16
N(opcode) == opcode % 16
KK(opcode) == opcode % 256
NNN(opcode) == opcode % 4096

SkipTaken(opcode) ==
    \/ Family(opcode) = 3 /\ v[X(opcode)] = KK(opcode)
    \/ Family(opcode) = 4 /\ v[X(opcode)] # KK(opcode)
    \/ Family(opcode) = 5 /\ v[X(opcode)] = v[Y(opcode)]
    \/ Family(opcode) = 9 /\ v[X(opcode)] # v[Y(opcode)]

\* neither a jump, a call, a return nor a taken skip
StraightLine(opcode) ==
    /\ Family(opcode) \notin {1, 2, 11}
    /\ opcode # 238
    /\ ~SkipTaken(opcode)

Offset(kind) == IF kind = "CHIP8" THEN 512 ELSE 1536

IsFont(mem) == \A i \in 0..79 : At(mem, i) = CHIP8_FONT_SET[i + 1]

-----------------------------------------------------------------------------
(* C1: one step (fetch then execute) of an opcode that is neither a jump,  *)
(* a call, a return nor a taken skip leaves pc at its pre-fetch value + 2. *)
(* The code never adds 2: fetch_opcode only reads, so pc stays put.        *)
C1_StepAdvancesPcByTwo ==
    (op = "decode_opcode" /\ panic = "none" /\ StraightLine(current_opcode))
        => program_counter = fetch_pc + 2

(* C5: after initialize() in any reachable state V0..VF, I, the stack      *)
(* pointer and both timers are zero, memory[0..80) is the font table and   *)
(* pc is the load offset of the selected variant.  The code leaves v and   *)
(* the timers alone: a register written by LD Vx, byte keeps its value.    *)
C5_InitializeResets ==
    op = "initialize" =>
        /\ \A r \in 0..15 : v[r] = 0
        /\ index_register = 0
        /\ stack_pointer = 0
        /\ delay_timer = 0
        /\ sound_timer = 0
        /\ IsFont(memory)
        /\ program_counter \in {512, 1536}

(* C6: load_program of an image with offset + len > 4096 is rejected       *)
(* without crashing the host and without writing any byte.  The code       *)
(* writes the bytes that fit and then panics on the first that does not.   *)
C6_OversizedLoadRejected ==
    [][(op' = "load_program" /\ Offset(arg'.kind) + arg'.program.len > 4096)
          => /\ panic' = "none"
             /\ memory' = memory
             /\ DOMAIN memory' \subseteq 0..4095]_vars

(* C7: load_program of an image with offset + len <= 4096 sets             *)
(* memory[offset + i] = bytes[i] for every i < len, offset being 0x200 for *)
(* CHIP8 and 0x600 for ETI660, and changes no other memory byte, no        *)
(* register, not pc, the stack, the stack pointer nor a timer.             *)
(* An address outside the three domains below reads 0 before and after     *)
(* and is 0 in the image, so the quantifier covers all of memory.          *)
C7_LoadCopiesImage ==
    [][(op' = "load_program" /\ Offset(arg'.kind) + arg'.program.len <= 4096)
          => LET off == Offset(arg'.kind)
                 img == arg'.program
             IN  /\ panic' = "none"
                 /\ \A a \in (DOMAIN memory) \cup (DOMAIN memory')
                              \cup {off + i : i \in DOMAIN img.bytes} :
                        At(memory', a) = IF a >= off /\ a < off + img.len
                                         THEN At(img.bytes, a - off)
                                         ELSE At(memory, a)
                 /\ DOMAIN memory' \subseteq 0..4095
                 /\ v' = v
                 /\ index_register' = index_register
                 /\ program_counter' = program_counter
                 /\ stack' = stack
                 /\ stack_pointer' = stack_pointer
                 /\ delay_timer' = delay_timer
                 /\ sound_timer' = sound_timer]_vars

\* the image that ends exactly at 0xFFF has been loaded over a font table
C7_Witness ==
    /\ op = "load_program"
    /\ panic = "none"
    /\ arg.kind = "CHIP8"
    /\ Offset(arg.kind) + arg.program.len = 4096
    /\ At(memory, 4095) = 171
    /\ At(memory, 512) = 97
    /\ IsFont(memory)

(* C8: with pc and pc+1 inside memory, fetch produces the opcode           *)
(* memory[pc] * 256 + memory[pc+1] and changes no memory byte and no       *)
(* register (V0..VF, I, pc, the stack pointer, the timers).                *)
C8_FetchBigEndian ==
    [][(op' = "fetch_opcode" /\ program_counter + 1 < 4096)
          => /\ current_opcode' = At(memory, program_counter) * 256
                                    + At(memory, program_counter + 1)
             /\ panic' = "none"
             /\ memory' = memory
             /\ v' = v
             /\ index_register' = index_register
             /\ program_counter' = program_counter
             /\ stack_pointer' = stack_pointer
             /\ delay_timer' = delay_timer
             /\ sound_timer' = sound_timer]_vars

\* A123 has been fetched from 0x202: the two bytes differ
C8_Witness ==
    /\ op = "fetch_opcode"
    /\ panic = "none"
    /\ fetch_pc = 514
    /\ current_opcode = 41251

-----------------------------------------------------------------------------
(* C2: from an empty stack, at any nesting depth up to 16, a CALL pushes   *)
(* and the matching RET restores the stack pointer and sets pc to the      *)
(* value pc had when that CALL was executed.  calls holds those values.    *)
(* The code stores at stack[sp + 1], so the 16th nested CALL indexes       *)
(* stack[16] and panics.                                                   *)
C2_CallRetRoundTrip ==
    [][(op' = "decode_opcode" /\ stack_pointer = Len(calls))
          => /\ (IsCALL(current_opcode) /\ Len(calls) < 16)
                    => /\ panic' = "none"
                       /\ stack_pointer' = stack_pointer + 1
             /\ (IsRET(current_opcode) /\ Len(calls) >= 1)
                    => /\ panic' = "none"
                       /\ stack_pointer' = stack_pointer - 1
                       /\ program_counter' = calls[Len(calls)]]_vars

(* C3: whenever CALL or RET index the 16-slot stack with the stack         *)
(* pointer, its value is in [0,16).                                        *)
C3_StackIndexInRange ==
    stack_index # NoIndex => (stack_index >= 0 /\ stack_index < 16)

(* C4: a CALL on a full stack and a RET on an empty stack do not crash     *)
(* the host and leave pc, the stack pointer and the stack as they were.    *)
(* The stack is full when the code has no slot left for a CALL (sp = 15)   *)
(* and empty when sp = 0.                                                  *)
C4_StackFaultLeavesState ==
    [][(/\ op' = "decode_opcode"
        /\ \/ IsCALL(current_opcode) /\ stack_pointer = 15
           \/ IsRET(current_opcode) /\ stack_pointer = 0)
          => /\ panic' = "none"
             /\ program_counter' = program_counter
             /\ stack_pointer' = stack_pointer
             /\ stack' = stack]_vars

-----------------------------------------------------------------------------
Carry(a, b) == IF a + b > 255 THEN 1 ELSE 0

(* C9: 8XY5 (SUB Vx,Vy) leaves Vx = (Vx_old - Vy_old) mod 256 and          *)
(* VF = 1 if Vx_old > Vy_old else 0.  The code writes the flag only.       *)
C9_SubComputesDifference ==
    [][(/\ op' = "decode_opcode"
        /\ Family(current_opcode) = 8 /\ N(current_opcode) = 5
        /\ X(current_opcode) # 15)
          => LET x == X(current_opcode)
                 y == Y(current_opcode)
             IN  /\ v'[x] = (256 + v[x] - v[y]) % 256
                 /\ v'[15] = IF v[x] > v[y] THEN 1 ELSE 0]_vars

(* C10, as claimed: 8XY4 (ADD Vx,Vy) leaves Vx = (Vx_old + Vy_old) mod 256 *)
(* and VF = 1 if Vx_old + Vy_old > 255 else 0, and changes no other        *)
(* register.  With X = F both cannot hold: the flag overwrites the sum.    *)
C10_AddAsClaimed ==
    [][(/\ op' = "decode_opcode"
        /\ Family(current_opcode) = 8 /\ N(current_opcode) = 4)
          => LET x == X(current_opcode)
                 y == Y(current_opcode)
             IN  /\ panic' = "none"
                 /\ v'[x] = (v[x] + v[y]) % 256
                 /\ v'[15] = Carry(v[x], v[y])
                 /\ \A r \in 0..15 : r \notin {x, 15} => v'[r] = v[r]]_vars

(* C10, amended: 8XY4 (ADD Vx,Vy) leaves VF = 1 if Vx_old + Vy_old > 255   *)
(* else 0 and, when X is not F, Vx = (Vx_old + Vy_old) mod 256; it         *)
(* changes no other register.                                              *)
C10_AddSetsSumAndCarry ==
    [][(/\ op' = "decode_opcode"
        /\ Family(current_opcode) = 8 /\ N(current_opcode) = 4)
          => LET x == X(current_opcode)
                 y == Y(current_opcode)
             IN  /\ panic' = "none"
                 /\ x # 15 => v'[x] = (v[x] + v[y]) % 256
                 /\ v'[15] = Carry(v[x], v[y])
                 /\ \A r \in 0..15 : r \notin {x, 15} => v'[r] = v[r]]_vars

\* ADD V1,V2 has wrapped: V1 = 0 and V2 = 1 after it, so V1 was 0xFF
C10_Witness ==
    /\ op = "decode_opcode"
    /\ panic = "none"
    /\ current_opcode = 33060
    /\ v[1] = 0
    /\ v[2] = 1
    /\ v[15] = 1

-----------------------------------------------------------------------------
(* C11: 7XKK (ADD Vx,byte) with X not F sets Vx = (Vx_old + KK) mod 256    *)
(* without faulting when the sum exceeds 255, and leaves VF unchanged.     *)
(* The code adds with +=, which panics on overflow in a build with         *)
(* overflow checks.                                                        *)
C11_AddByteWraps ==
    [][(/\ op' = "decode_opcode"
        /\ Family(current_opcode) = 7
        /\ X(current_opcode) # 15)
          => LET x == X(current_opcode)
             IN  /\ panic' = "none"
                 /\ v'[x] = (v[x] + KK(current_opcode)) % 256
                 /\ v'[15] = v[15]]_vars

-----------------------------------------------------------------------------
FloorAtZero(n) == IF n > 0 THEN n ELSE 0

(* C12: no opcode writes a timer, so after n ticks a timer that started at *)
(* d holds max(d - n, 0): each tick takes 1 off each nonzero timer, the    *)
(* two independently, and leaves a zero timer at zero.                     *)
C12_TimersDecayToZero ==
    /\ delay_timer = FloorAtZero(timer_start.delay - ticks)
    /\ sound_timer = FloorAtZero(timer_start.sound - ticks)

\* the delay timer has been at its floor for two ticks, the sound timer,
\* which started higher, for one
C12_Witness ==
    /\ op = "update_timers"
    /\ timer_start.delay = 1
    /\ timer_start.sound = 2
    /\ ticks = 3
    /\ delay_timer = 0
    /\ sound_timer = 0

TickLoss(timer, operation) ==
    IF operation = "update_timers" /\ timer > 0 THEN 1 ELSE 0

C13_OnlyTicksDecrementTimers ==
    [][/\ delay_timer' = delay_timer - TickLoss(delay_timer, op')
       /\ sound_timer' = sound_timer - TickLoss(sound_timer, op')]_vars

\* F115 (LD DT, V1 in the CHIP-8 instruction set) has executed after a tick
\* that took the sound timer from 1 to 0 (the buzzer signalled) and the
\* delay timer from 2 to 1, where it still stands
C13_Witness ==
    /\ op = "decode_opcode"
    /\ panic = "none"
    /\ current_opcode = 61717
    /\ buzzer
    /\ sound_timer = 0
    /\ delay_timer = 1

\* the opcodes of families 5, 8 and 9 that the CHIP-8 instruction set leaves
\* undefined
Undefined(opcode) ==
    \/ Family(opcode) = 8 /\ N(opcode) \in (8..13) \cup {15}
    \/ Family(opcode) \in {5, 9} /\ N(opcode) # 0

(* C15: executing an undefined opcode (8XY8..8XYD, 8XYF, 5XYN or 9XYN     *)
(* with N # 0) does not crash the host and changes no register, I, stack   *)
(* slot, stack pointer, timer, memory byte or display cell; pc either      *)
(* stays (fault) or moves past the opcode (logged no-op advance).          *)
(* The 8XY_ arm of the code ends in todo!(), which panics, and the 5XY_    *)
(* and 9XY_ arms never look at the last nibble.                            *)
C15_UndefinedOpcodeHarmless ==
    [][(op' = "decode_opcode" /\ Undefined(current_opcode))
        => /\ panic' = "none"
           /\ program_counter' \in {fetch_pc, fetch_pc + 2}
           /\ UNCHANGED <<v, index_register, stack, stack_pointer, delay_timer,
                          sound_timer, memory, gfx>>]_vars

\* 3XKK, 4XKK, 5XY0 and 9XY0
IsSkip(opcode) ==
    \/ Family(opcode) \in {3, 4}
    \/ Family(opcode) \in {5, 9} /\ N(opcode) = 0

(* C16: one step of a skip opcode (3XKK, 4XKK, 5XY0, 9XY0) leaves pc at    *)
(* the fetch address + 4 when its condition holds and at the fetch         *)
(* address + 2 otherwise, and changes no register, stack slot, timer or    *)
(* memory byte.  The code adds 2 when the condition holds and nothing      *)
(* otherwise, on a pc that the fetch has not advanced.                     *)
C16_SkipLeavesPcPastNext ==
    [][(op' = "decode_opcode" /\ IsSkip(current_opcode))
        => /\ program_counter' =
                  fetch_pc + (IF SkipTaken(current_opcode) THEN 4 ELSE 2)
           /\ UNCHANGED <<v, index_register, stack, stack_pointer, delay_timer,
                          sound_timer, memory>>]_vars

(* C18: executing 00E0 (CLS) completes normally and leaves every display  *)
(* cell off, changing nothing else but pc; no operation other than CLS     *)
(* and the sprite draw DXYN changes the display.  In the code CLS calls    *)
(* clear_screen, whose body is todo!().                                    *)
C18_ClsClearsDisplay ==
    [][/\ (op' = "decode_opcode" /\ current_opcode = 224)
           => /\ panic' = "none"
              /\ gfx' = AllZero
              /\ UNCHANGED <<v, index_register, stack, stack_pointer,
                             delay_timer, sound_timer, memory>>
       /\ ~(op' = "decode_opcode" /\ (current_opcode = 224 \/ Family(current_opcode) = 13))
           => gfx' = gfx]_vars

(* C20: memory is written only by initialize and load_program: fetch,     *)
(* execute (of any opcode) and timer ticks leave every memory byte as it   *)
(* was, so memory always equals what the last initialize or load_program   *)
(* left.                                                                   *)
C20_OnlyInitAndLoadWriteMemory ==
    [][op' \in {"fetch_opcode", "decode_opcode", "update_timers"}
        => memory' = memory]_vars

\* F155 (LD [I], V1 in the CHIP-8 instruction set) has executed and memory
\* still holds the font and the loaded two bytes
C20_Witness ==
    /\ op = "decode_opcode"
    /\ panic = "none"
    /\ current_opcode = 61781
    /\ IsFont(memory)
    /\ At(memory, CHIP8_PROGRAM_OFFSET) = 241
    /\ At(memory, CHIP8_PROGRAM_OFFSET + 1) = 85
    /\ \A i \in DOMAIN memory : i < FONT_SET_SIZE \/ i \in {512, 513}

\* FX0A
IsWaitKey(opcode) == Family(opcode) = 15 /\ KK(opcode) = 10

(* C17: FX0A does not retire while no key is pressed: a step on it with    *)
(* every key up leaves pc at the instruction and Vx unchanged; a step on   *)
(* it with some key down sets Vx to a pressed key and leaves pc past the   *)
(* instruction.  The struct has no key state and FX0A falls into the       *)
(* fallback arm, which changes nothing whatever the keys.                  *)
C17_WaitKeyBlocksThenLoads ==
    [][(op' = "decode_opcode" /\ IsWaitKey(current_opcode))
        => IF keys = {}
           THEN program_counter' = fetch_pc /\ v' = v
           ELSE /\ v'[X(current_opcode)] \in keys
                /\ program_counter' = fetch_pc + 2]_vars

(* C19: CALL increments the stack pointer before it stores and           *)
(* initialize sets the pointer to 0, so no operation ever writes stack     *)
(* slot 0; the return address of the i-th active call is in slot i, the    *)
(* slots 1..sp, and at most 15 calls are active at once: a CALL that       *)
(* stores leaves the pointer at the number of active calls, 1..15.         *)
C19_SlotZeroNeverWritten ==
    [][/\ stack'[0] = stack[0]
       /\ Len(calls') <= STACK_SIZE - 1
       /\ Len(calls') <= stack_pointer'
       /\ \A i \in 1..Len(calls') : stack'[i] = calls'[i]
       /\ (op' = "decode_opcode" /\ IsCALL(current_opcode) /\ panic' = "none")
             => /\ stack_pointer' = Len(calls')
                /\ stack'[stack_pointer'] = program_counter]_vars

\* fifteen calls are active: slot 15 holds the last return address and slot
\* 0 still holds what the construction put there
C19_Witness ==
    /\ op = "decode_opcode"
    /\ panic = "none"
    /\ IsCALL(current_opcode)
    /\ Len(calls) = 15
    /\ stack_pointer = 15
    /\ stack[15] = calls[15]
    /\ stack[15] # 0
    /\ stack[0] = 0

====
